---- MODULE Spec2Model ----
(***************************************************************************)
(* PetSync (Google Apps Script): configuration resolution (Config.gs),     *)
(* the sync pipeline, sheet writer and trigger scheduling (Code.gs) and    *)
(* the HTTP helper (UtilityService.gs).                                    *)
(*                                                                         *)
(* Conventions.                                                            *)
(*  - A JavaScript value is a tagged record: Str, Num, Obj, Arr, Null,     *)
(*    Undef.  A string is a tuple of one-character strings, so that        *)
(*    startsWith, the apiUrl pattern and concatenation are computed.  An   *)
(*    object is the sequence of its own properties in insertion order.     *)
(*  - A call that may throw yields [ok |-> TRUE, val |-> v] or             *)
(*    [ok |-> FALSE, err |-> e].                                           *)
(*  - Code.gs calls getApiConfig, getSheetRanges, validateResponse,        *)
(*    logSuccess and logError by bare name; they are bound here to the     *)
(*    functions of these names of Config and UtilityService.               *)
(*  - Every execution (a menu item, a google.script.run call, a fired      *)
(*    trigger) loads Config.gs before the function it runs; when the load  *)
(*    throws, the function does not run.                                   *)
(*  - A JSON document is a TLA+ string; JSONparse decodes the documents    *)
(*    in use and throws on any other text.                                 *)
(*  - The effects of a call (requests, sheet operations, trigger           *)
(*    operations, log lines, toasts, alerts) are recorded in order in the  *)
(*    execution's events.  A message built by concatenation is the record  *)
(*    of its parts.                                                        *)
(*  - ScriptApp is taken to accept every period passed to everyMinutes.    *)
(***************************************************************************)
EXTENDS Integers, Sequences, FiniteSets, TLC

\* ------------------------------------------------------------ JS values

Str(s) == [t |-> "str", s |-> s]
Num(n) == [t |-> "num", n |-> n]
Obj(pairs) == [t |-> "obj", o |-> pairs]
Arr(items) == [t |-> "arr", a |-> items]
Null == [t |-> "null"]
Undef == [t |-> "undef"]
P(k, v) == [k |-> k, v |-> v]

Ok(v) == [ok |-> TRUE, val |-> v]
Throw(e) == [ok |-> FALSE, err |-> e]

\* typeof v
TypeOf(v) ==
  CASE v.t = "str" -> "string"
    [] v.t = "num" -> "number"
    [] v.t = "undef" -> "undefined"
    [] OTHER -> "object"

\* ToBoolean(v), as in `!v` and `a && b`
Truthy(v) ==
  CASE v.t = "str" -> v.s # <<>>
    [] v.t = "num" -> v.n # 0
    [] v.t \in {"null", "undef"} -> FALSE
    [] OTHER -> TRUE

IsArray(v) == v.t = "arr"

IndexNames == <<"0", "1", "2", "3">>

\* Object.keys(v) for an object or an array, in enumeration order
Keys(v) ==
  CASE v.t = "obj" -> [i \in 1..Len(v.o) |-> v.o[i].k]
    [] v.t = "arr" -> [i \in 1..Len(v.a) |-> IndexNames[i]]
    [] OTHER -> <<>>

HasOwn(v, k) == \E i \in 1..Len(Keys(v)) : Keys(v)[i] = k

\* v[k]: undefined when v has no such property
Get(v, k) ==
  IF ~HasOwn(v, k) THEN Undef
  ELSE LET i == CHOOSE j \in 1..Len(Keys(v)) : Keys(v)[j] = k
       IN  IF v.t = "obj" THEN v.o[i].v ELSE v.a[i]

\* obj[k] = x on an object: an existing property keeps its place
Put(obj, k, x) ==
  IF HasOwn(obj, k)
  THEN Obj([i \in 1..Len(obj.o) |-> IF obj.o[i].k = k THEN P(k, x) ELSE obj.o[i]])
  ELSE Obj(Append(obj.o, P(k, x)))

\* a + b on strings
Concat(a, b) == a \o b

StartsWith(s, p) == Len(s) >= Len(p) /\ SubSeq(s, 1, Len(p)) = p

\* ------------------------------------------------------------ JSON

\* JSON.parse(JSON.stringify(v)): a structural copy; a property whose value
\* is undefined is dropped, an undefined array element becomes null
RECURSIVE JSONclone(_)
JSONclone(v) ==
  CASE v.t = "obj" ->
         LET kept == SelectSeq(v.o, LAMBDA p : p.v.t # "undef")
         IN  Obj([i \in 1..Len(kept) |-> P(kept[i].k, JSONclone(kept[i].v))])
    [] v.t = "arr" ->
         Arr([i \in 1..Len(v.a) |->
                IF v.a[i].t = "undef" THEN Null ELSE JSONclone(v.a[i])])
    [] OTHER -> v

\* The JSON documents of the model (ENDPOINTS property values and response
\* bodies) and what JSON.parse makes of each
JsonTexts ==
  { "{\"extra\":\"/x\"}", "{\"extra\":\"x\"}", "{\"fetchPets\":\"/p2\"}",
    "{\"extra\":\"\"}", "{}", "[\"/a\",\"/b\"]", "null", "5", "{bad", "",
    "{\"data\":[[1,2],[3,4]]}", "{\"data\":[[5,6]]}", "{\"error\":\"nf\"}",
    "<html>" }

JSONparse(text) ==
  CASE text = "{\"extra\":\"/x\"}" -> Ok(Obj(<<P("extra", Str(<<"/", "x">>))>>))
    [] text = "{\"extra\":\"x\"}" -> Ok(Obj(<<P("extra", Str(<<"x">>))>>))
    [] text = "{\"fetchPets\":\"/p2\"}" ->
         Ok(Obj(<<P("fetchPets", Str(<<"/", "p", "2">>))>>))
    [] text = "{\"extra\":\"\"}" -> Ok(Obj(<<P("extra", Str(<<>>))>>))
    [] text = "{}" -> Ok(Obj(<<>>))
    [] text = "[\"/a\",\"/b\"]" ->
         Ok(Arr(<<Str(<<"/", "a">>), Str(<<"/", "b">>)>>))
    [] text = "null" -> Ok(Null)
    [] text = "5" -> Ok(Num(5))
    [] text = "{\"data\":[[1,2],[3,4]]}" ->
         Ok(Obj(<<P("data", Arr(<<Arr(<<Num(1), Num(2)>>),
                                  Arr(<<Num(3), Num(4)>>)>>))>>))
    [] text = "{\"data\":[[5,6]]}" ->
         Ok(Obj(<<P("data", Arr(<<Arr(<<Num(5), Num(6)>>)>>))>>))
    [] text = "{\"error\":\"nf\"}" ->
         Ok(Obj(<<P("error", Str(<<"n", "f">>))>>))
    [] OTHER -> Throw([name |-> "SyntaxError"])

\* ------------------------------------------------------------ Config.gs

S_apiUrl ==
  <<"h", "t", "t", "p", "s", ":", "/", "/", "a", "p", "i", ".", "e", "x",
    "a", "m", "p", "l", "e", ".", "c", "o", "m", "/", "p", "e", "t", "s",
    "y", "n", "c">>
S_pets == <<"/", "p", "e", "t", "s">>
S_owners == <<"/", "o", "w", "n", "e", "r", "s">>
S_Pets == <<"P", "e", "t", "s">>
S_A2Z == <<"A", "2", ":", "Z">>
S_triggerName ==
  <<"P", "e", "t", "S", "y", "n", "c", "_", "F", "e", "t", "c", "h", "D",
    "a", "t", "a">>

DEFAULTS ==
  Obj(<< P("apiUrl", Str(S_apiUrl)),
         P("apiKey", Str(<<>>)),
         P("endpoints", Obj(<< P("fetchPets", Str(S_pets)),
                               P("fetchOwners", Str(S_owners)) >>)),
         P("sheetName", Str(S_Pets)),
         P("fullRefreshRange", Str(S_A2Z)),
         P("incrementalRefreshRange", Str(S_A2Z)),
         P("triggerName", Str(S_triggerName)) >>)

\* The property keys in the order the stores enumerate them
PropKeys ==
  << "API_URL", "API_KEY", "ENDPOINTS", "SHEET_NAME", "FULL_REFRESH_RANGE",
     "INCREMENTAL_REFRESH_RANGE", "TRIGGER_NAME", "FOO" >>

\* Object.assign({}, scriptProps, userProps): a user property wins
AllProps(sProps, uProps) ==
  [k \in DOMAIN sProps \cup DOMAIN uProps |->
     IF k \in DOMAIN uProps THEN uProps[k] ELSE sProps[k]]

\* The switch of loadOverrides for one key: the overrides with the key applied
RECURSIVE LoadKeys(_, _, _)
LoadKeys(allProps, overrides, i) ==
  IF i > Len(PropKeys) THEN Ok(overrides)
  ELSE
    LET key == PropKeys[i]
        val == allProps[key]
        next(o) == LoadKeys(allProps, o, i + 1)
    IN  IF key \notin DOMAIN allProps THEN next(overrides)
        ELSE CASE key = "API_URL" -> next(Put(overrides, "apiUrl", Str(val)))
               [] key = "API_KEY" -> next(Put(overrides, "apiKey", Str(val)))
               [] key = "ENDPOINTS" ->
                    IF JSONparse(val).ok
                    THEN next(Put(overrides, "endpoints", JSONparse(val).val))
                    ELSE Throw([msg |-> "Invalid JSON for ENDPOINTS in PropertiesService"])
               [] key = "SHEET_NAME" -> next(Put(overrides, "sheetName", Str(val)))
               [] key = "FULL_REFRESH_RANGE" ->
                    next(Put(overrides, "fullRefreshRange", Str(val)))
               [] key = "INCREMENTAL_REFRESH_RANGE" ->
                    next(Put(overrides, "incrementalRefreshRange", Str(val)))
               [] key = "TRIGGER_NAME" -> next(Put(overrides, "triggerName", Str(val)))
               [] OTHER -> next(overrides)

loadOverrides(sProps, uProps) == LoadKeys(AllProps(sProps, uProps), Obj(<<>>), 1)

\* Line 68: the object mergeConfig writes to, and whether it is the defaults
\* object itself
WorkingCopy(defaults) == [obj |-> JSONclone(defaults), isDefaults |-> FALSE]

\* merged[key] = x in strict mode: a TypeError when merged is a primitive
Assign(merged, key, x) ==
  IF merged.t = "obj" THEN Ok(Put(merged, key, x))
  ELSE Throw([name |-> "TypeError", msg |-> "Cannot create property"])

\* A merge that replaces every overridden field outright (no recursion)
RECURSIVE MergeKeysShallow(_, _, _)
MergeKeysShallow(merged, overrides, i) ==
  IF i > Len(Keys(overrides)) THEN Ok(merged)
  ELSE
    LET key == Keys(overrides)[i]
        a == Assign(merged, key, Get(overrides, key))
    IN  IF a.ok THEN MergeKeysShallow(a.val, overrides, i + 1) ELSE a

RECURSIVE mergeConfig(_, _), MergeKeys(_, _, _)
mergeConfig(defaults, overrides) ==
  IF overrides.t \in {"null", "undef"}
  THEN Throw([name |-> "TypeError", msg |-> "Cannot convert undefined or null to object"])
  ELSE MergeKeys(WorkingCopy(defaults).obj, overrides, 1)

MergeKeys(merged, overrides, i) ==
  IF i > Len(Keys(overrides)) THEN Ok(merged)
  ELSE
    LET key == Keys(overrides)[i]
        ov == Get(overrides, key)
        set(x) == LET a == Assign(merged, key, x)
                  IN  IF a.ok THEN MergeKeys(a.val, overrides, i + 1) ELSE a
    IN  IF ov.t = "undef" THEN MergeKeys(merged, overrides, i + 1)
        ELSE IF TypeOf(ov) = "object" /\ ~IsArray(ov) /\ Truthy(Get(merged, key))
             THEN LET r == mergeConfig(Get(merged, key), ov)
                  IN  IF r.ok THEN set(r.val) ELSE r
             ELSE set(ov)

\* The DEFAULTS object after mergeConfig(DEFAULTS, overrides) returned merged
DefaultsAfterMerge(defaults, merged) ==
  IF WorkingCopy(defaults).isDefaults THEN merged ELSE defaults

\* /^https?:\/\//.test(s)
IsHttpUrl(s) ==
  \/ StartsWith(s, <<"h", "t", "t", "p", ":", "/", "/">>)
  \/ StartsWith(s, <<"h", "t", "t", "p", "s", ":", "/", "/">>)

\* !v || typeof v !== 'string'
NotNonEmptyString(v) == ~Truthy(v) \/ TypeOf(v) # "string"

\* An endpoint check without the startsWith('/') test
RECURSIVE ValidateEndpointsNoSlash(_, _)
ValidateEndpointsNoSlash(endpoints, i) ==
  IF i > Len(Keys(endpoints)) THEN Ok(TRUE)
  ELSE
    LET path == Get(endpoints, Keys(endpoints)[i])
    IN  IF TypeOf(path) # "string" \/ ~Truthy(path)
        THEN Throw([msg |-> "endpoint must be a non-empty string", name |-> Keys(endpoints)[i]])
        ELSE ValidateEndpointsNoSlash(endpoints, i + 1)

\* The forEach of validate over the endpoint names, from the i-th on
RECURSIVE ValidateEndpoints(_, _)
ValidateEndpoints(endpoints, i) ==
  IF i > Len(Keys(endpoints)) THEN Ok(TRUE)
  ELSE
    LET name == Keys(endpoints)[i]
        path == Get(endpoints, name)
    IN  IF TypeOf(path) # "string" \/ ~Truthy(path)
        THEN Throw([msg |-> "endpoint must be a non-empty string", name |-> name])
        ELSE IF ~StartsWith(path.s, <<"/">>)
        THEN Throw([msg |-> "endpoint should start with /", name |-> name])
        ELSE ValidateEndpoints(endpoints, i + 1)

\* lines 83-113, with the outcome of the endpoint loop (lines 92-100) given
ValidateWith(config, endpointCheck) ==
  IF NotNonEmptyString(Get(config, "apiUrl")) \/ ~IsHttpUrl(Get(config, "apiUrl").s)
  THEN Throw([msg |-> "apiUrl must be a valid HTTP(S) URL"])
  ELSE IF NotNonEmptyString(Get(config, "apiKey"))
  THEN Throw([msg |-> "apiKey is required and must be a string"])
  ELSE IF ~Truthy(Get(config, "endpoints")) \/ TypeOf(Get(config, "endpoints")) # "object"
  THEN Throw([msg |-> "endpoints must be an object"])
  ELSE IF ~endpointCheck.ok
  THEN endpointCheck
  ELSE IF NotNonEmptyString(Get(config, "sheetName"))
  THEN Throw([msg |-> "sheetName is required and must be a string"])
  ELSE IF NotNonEmptyString(Get(config, "fullRefreshRange"))
  THEN Throw([msg |-> "fullRefreshRange is required and must be a string"])
  ELSE IF NotNonEmptyString(Get(config, "incrementalRefreshRange"))
  THEN Throw([msg |-> "incrementalRefreshRange is required and must be a string"])
  ELSE IF NotNonEmptyString(Get(config, "triggerName"))
  THEN Throw([msg |-> "triggerName is required and must be a string"])
  ELSE Ok(TRUE)

validate(config) == ValidateWith(config, ValidateEndpoints(Get(config, "endpoints"), 1))

\* Object.assign({}, v): the own enumerable properties of v in a fresh object
AssignToEmpty(v) == Obj([i \in 1..Len(Keys(v)) |-> P(Keys(v)[i], Get(v, Keys(v)[i]))])

getApiConfig(config) ==
  Obj(<< P("apiUrl", Get(config, "apiUrl")),
         P("apiKey", Get(config, "apiKey")),
         P("endpoints", AssignToEmpty(Get(config, "endpoints"))) >>)

getSheetRanges(config) ==
  Obj(<< P("sheetName", Get(config, "sheetName")),
         P("fullRefreshRange", Get(config, "fullRefreshRange")),
         P("incrementalRefreshRange", Get(config, "incrementalRefreshRange")),
         P("incrementalRange", Get(config, "incrementalRefreshRange")) >>)

getTriggerName(config) == Get(config, "triggerName")

\* lines 153-158, on the two objects the accessors hand out
TestViews(apiConf, ranges) ==
  IF ~Truthy(Get(apiConf, "apiUrl")) \/ ~Truthy(Get(apiConf, "apiKey"))
  THEN Throw([msg |-> "Config test failed: API configuration incomplete."])
  ELSE IF \/ ~Truthy(Get(ranges, "sheetName"))
          \/ ~Truthy(Get(ranges, "fullRefreshRange"))
          \/ ~Truthy(Get(ranges, "incrementalRefreshRange"))
  THEN Throw([msg |-> "Config test failed: Sheet ranges configuration incomplete."])
  ELSE Ok(TRUE)

\* The assertions run when the file is loaded
testConfig(config) == TestViews(getApiConfig(config), getSheetRanges(config))

\* validate(cfg); return Object.freeze(cfg); then the assertions of testConfig
Validated(cfg, validation, test) ==
  IF ~validation.ok THEN validation
  ELSE IF ~test.ok THEN test
  ELSE Ok(cfg)

\* var cfg = mergeConfig(DEFAULTS, overrides); ...
Merged(mg) == IF ~mg.ok THEN mg ELSE Validated(mg.val, validate(mg.val), testConfig(mg.val))

\* var overrides = loadOverrides(); ...
Loaded(ov) == IF ~ov.ok THEN ov ELSE Merged(mergeConfig(DEFAULTS, ov.val))

\* Loading Config.gs: the _config object, or the error that stops the load
BuildConfig(sProps, uProps) == Loaded(loadOverrides(sProps, uProps))

\* ------------------------------------------------------------ UtilityService.gs

Bool(b) == [t |-> "bool", b |-> b]
Err(msg) == [name |-> "Error", msg |-> msg]

\* What a call did and how it ended: the effects in order, and the value
\* returned or the error thrown
Outcome(events, result) == [events |-> events, result |-> result]

\* error.message (error instanceof Error)
MessageOf(error) == error.msg

logError(error) ==
  << [e |-> "Logger.log", level |-> "ERROR", msg |-> MessageOf(error)],
     [e |-> "toast", title |-> "PetSync Error", msg |-> MessageOf(error)] >>

logSuccess(message) ==
  << [e |-> "Logger.log", level |-> "SUCCESS", msg |-> message],
     [e |-> "toast", title |-> "PetSync Success", msg |-> message] >>

\* requiredKeys.forEach of validateResponse, from the i-th key on
RECURSIVE RequireKeys(_, _, _)
RequireKeys(response, requiredKeys, i) ==
  IF i > Len(requiredKeys.a) THEN Ok(Bool(TRUE))
  ELSE IF ~HasOwn(response, requiredKeys.a[i])
  THEN Throw([name |-> "Error", msg |-> "validateResponse: missing required key",
              key |-> requiredKeys.a[i]])
  ELSE RequireKeys(response, requiredKeys, i + 1)

\* requiredKeys is undefined or an array of property names
validateResponse(response, requiredKeys) ==
  IF TypeOf(response) # "object" \/ response.t = "null"
  THEN Throw(Err("validateResponse: response must be a non-null object"))
  ELSE IF ~IsArray(requiredKeys)
  THEN Throw(Err("validateResponse: requiredKeys must be an array of strings"))
  ELSE RequireKeys(response, requiredKeys, 1)

\* The remote end: what a request to url meets.  [kind |-> "down"] is a
\* transport failure, [kind |-> "response", code, body] an HTTP response.
Down == [kind |-> "down"]
Response(code, body) == [kind |-> "response", code |-> code, body |-> body]

\* UrlFetchApp.fetch(url, options): throws on a transport failure and, unless
\* muteHttpExceptions is set, on a response code that indicates failure
UrlFetch(net, url, options) ==
  IF url \notin DOMAIN net \/ net[url].kind = "down"
  THEN Throw([name |-> "Exception", msg |-> "Address unavailable"])
  ELSE IF ~options.muteHttpExceptions /\ (net[url].code < 200 \/ net[url].code >= 300)
  THEN Throw([name |-> "Exception", msg |-> "Request failed", code |-> net[url].code])
  ELSE Ok(net[url])

\* String.prototype.toUpperCase on the method names in use
ToUpperCase(s) ==
  CASE s = <<"g", "e", "t">> -> <<"G", "E", "T">>
    [] s = <<"p", "o", "s", "t">> -> <<"P", "O", "S", "T">>
    [] OTHER -> s

\* lines 123-138 of callApi, for a value of muteHttpExceptions
FetchOptionsWith(options, mute) ==
  LET opts == IF Truthy(options) THEN options ELSE Obj(<<>>)
  IN  [ method |-> IF Truthy(Get(opts, "method")) /\ TypeOf(Get(opts, "method")) = "string"
                   THEN ToUpperCase(Get(opts, "method").s) ELSE <<"G", "E", "T">>,
        muteHttpExceptions |-> mute,
        timeout |-> IF TypeOf(Get(opts, "timeout")) = "number"
                    THEN Get(opts, "timeout").n ELSE 30000 ]

\* A request that throws on a failure status (muteHttpExceptions unset)
FetchOptionsUnmuted(options) == FetchOptionsWith(options, FALSE)

\* fetchOptions, with muteHttpExceptions: true (line 129)
FetchOptions(options) == FetchOptionsWith(options, TRUE)

\* lines 154-158
ParseBody(events, json) ==
  IF ~json.ok THEN Outcome(events, Throw(Err("callApi: JSON parse error")))
  ELSE Outcome(events, Ok(json.val))

\* lines 141-158, on the request made and what UrlFetchApp.fetch gave
Answered(url, request, r) ==
  IF ~r.ok
  THEN Outcome(<<request>> \o logError(r.err),
               Throw([name |-> "Error",
                      msg |-> [text |-> "callApi: request failed for", url |-> url,
                               cause |-> r.err.msg]]))
  ELSE IF r.val.code < 200 \/ r.val.code >= 300
  THEN Outcome(<<request, [e |-> "Logger.log", level |-> "callApi", msg |-> "took"]>>,
               Throw([name |-> "Error",
                      msg |-> [text |-> "callApi: HTTP", code |-> r.val.code,
                               body |-> r.val.body]]))
  ELSE ParseBody(<<request, [e |-> "Logger.log", level |-> "callApi", msg |-> "took"]>>,
                 JSONparse(r.val.body))

callApi(url, options, net) ==
  IF TypeOf(url) # "string" \/ url.s = <<>>
  THEN Outcome(<<>>, Throw(Err("callApi: url must be a non-empty string")))
  ELSE Answered(url.s, [e |-> "fetch", url |-> url.s, options |-> FetchOptions(options)],
                UrlFetch(net, url.s, FetchOptions(options)))

\* ------------------------------------------------------------ Code.gs

FetchTriggers(registry) == {tr \in registry : tr.handler = "fetchData"}

\* ScriptApp.newTrigger(handler).timeBased().everyX(n).create()
NewTrigger(id, handler, unit, n) == [id |-> id, handler |-> handler, unit |-> unit, n |-> n]

\* A check that never finds a trigger
ExistingNever(registry) == FALSE

\* getProjectTriggers().some(trigger => trigger.getHandlerFunction() === 'fetchData')
Existing(registry) == \E tr \in registry : tr.handler = "fetchData"

\* setupTriggers run in one piece: the registry and the next trigger id after it
setupTriggers(registry, nextId) ==
  IF ~Existing(registry)
  THEN [ events |-> <<[e |-> "newTrigger", handler |-> "fetchData", unit |-> "hours", n |-> 1]>>,
         registry |-> registry \cup {NewTrigger(nextId, "fetchData", "hours", 1)},
         nextId |-> nextId + 1 ]
  ELSE [events |-> <<>>, registry |-> registry, nextId |-> nextId]

Letters == <<"A", "B", "C", "D", "E", "F", "G", "H", "I", "J", "K", "L", "M",
             "N", "O", "P", "Q", "R", "S", "T", "U", "V", "W", "X", "Y", "Z">>
Digits == <<"1", "2", "3", "4", "5", "6", "7", "8", "9">>
IndexIn(seq, x) == CHOOSE i \in 1..Len(seq) : seq[i] = x
InSeq(seq, x) == \E i \in 1..Len(seq) : seq[i] = x

\* sheet.getRange(a1): the range's top-left cell, for a range text that
\* starts with one column letter and one row digit
GetRange(a1) ==
  IF a1.t = "str" /\ Len(a1.s) >= 2 /\ InSeq(Letters, a1.s[1]) /\ InSeq(Digits, a1.s[2])
  THEN Ok([a1 |-> a1.s, row |-> IndexIn(Digits, a1.s[2]), col |-> IndexIn(Letters, a1.s[1])])
  ELSE Throw([name |-> "Exception", msg |-> "Range not found"])

ActiveSheet == <<"S", "h", "e", "e", "t", "1">>

\* ranges.sheetName ? ss.getSheetByName(ranges.sheetName) || ss.getActiveSheet()
\*                  : ss.getActiveSheet()
TargetSheet(ranges, sheetNames) ==
  IF Truthy(Get(ranges, "sheetName")) /\ Get(ranges, "sheetName").s \in sheetNames
  THEN Get(ranges, "sheetName").s
  ELSE ActiveSheet

\* Range.setValues(data) on a rows x cols range: the data must have these
\* dimensions
SetValues(sheet, start, rows, cols, data) ==
  IF \A i \in 1..Len(data.a) : IsArray(data.a[i]) /\ Len(data.a[i].a) = cols
  THEN Ok([e |-> "setValues", sheet |-> sheet, row |-> start.row, col |-> start.col,
           rows |-> rows, cols |-> cols, data |-> data])
  ELSE Throw([name |-> "Exception", msg |-> "The data does not match the range"])

\* ranges.fullRefresh
FullRefresh(ranges) == Truthy(Get(ranges, "fullRefresh"))

\* lines 118-125: the block write at startCell and the value returned
WriteBlock(data, clear, write) ==
  IF ~write.ok THEN Outcome(clear, write)
  ELSE Outcome(Append(clear, write.val),
               Ok(Obj(<<P("success", Bool(TRUE)), P("rows", Num(Len(data.a)))>>)))

\* lines 112-117: startCell and, on a full refresh, the clearContent
WriteFrom(data, sheet, start, clear) ==
  IF ~start.ok THEN Outcome(<<>>, start)
  ELSE WriteBlock(data, clear,
                  SetValues(sheet, start.val, Len(data.a), Len(data.a[1].a), data))

writeData(data, ranges, sheetNames) ==
  IF ~IsArray(data) \/ Len(data.a) = 0 \/ ~IsArray(data.a[1])
  THEN Outcome(<<>>, Throw(Err("writeData received invalid data format")))
  ELSE IF FullRefresh(ranges)
  THEN WriteFrom(data, TargetSheet(ranges, sheetNames),
                 GetRange(Get(ranges, "fullRefreshRange")),
                 <<[e |-> "clearContent", sheet |-> TargetSheet(ranges, sheetNames),
                    range |-> Get(ranges, "fullRefreshRange").s]>>)
  ELSE WriteFrom(data, TargetSheet(ranges, sheetNames),
                 GetRange(Get(ranges, "incrementalRange")), <<>>)

\* lines 72-76
RequestOptions(config) ==
  [method |-> <<"g", "e", "t">>, muteHttpExceptions |-> TRUE,
   bearer |-> Get(config, "apiKey").s]

\* lines 80-82: allData after one response
Gathered(allData, json) ==
  IF IsArray(Get(json, "data")) THEN allData \o Get(json, "data").a ELSE allData

\* The body of config.endpoints.forEach for the endpoints from the i-th on:
\* the records gathered and the requests made, or the error thrown
RECURSIVE FetchEndpoints(_, _, _, _, _), Decoded(_, _, _, _, _, _), Fetched(_, _, _, _, _, _)
FetchEndpoints(config, net, i, allData, events) ==
  IF i > Len(Get(config, "endpoints").a) THEN Outcome(events, Ok(Arr(allData)))
  ELSE Fetched(config, net, i, allData,
               Append(events, [e |-> "fetch",
                               url |-> Concat(Get(config, "apiUrl").s,
                                              Get(config, "endpoints").a[i].s),
                               options |-> RequestOptions(config)]),
               UrlFetch(net, Concat(Get(config, "apiUrl").s,
                                    Get(config, "endpoints").a[i].s),
                        RequestOptions(config)))

\* line 78: JSON.parse(response.getContentText())
Fetched(config, net, i, allData, events, response) ==
  IF ~response.ok THEN Outcome(events, response)
  ELSE Decoded(config, net, i, allData, events, JSONparse(response.val.body))

\* lines 79-82: validateResponse(json), then the data are gathered
Decoded(config, net, i, allData, events, json) ==
  IF ~json.ok THEN Outcome(events, json)
  ELSE IF ~validateResponse(json.val, Undef).ok
  THEN Outcome(events, validateResponse(json.val, Undef))
  ELSE FetchEndpoints(config, net, i + 1, Gathered(allData, json.val), events)

\* !config || !config.apiUrl || !Array.isArray(config.endpoints)
InvalidApiConfig(config) ==
  ~Truthy(config) \/ ~Truthy(Get(config, "apiUrl")) \/ ~IsArray(Get(config, "endpoints"))

\* What fetchData did: its effects, its result, and the trigger registry
\* after it
Pipeline(events, result, registry, nextId) ==
  [events |-> events, result |-> result, registry |-> registry, nextId |-> nextId]

\* lines 85-87: setupTriggers(); logSuccess(...); return result
AfterWrite(events, written, ensured, registry, nextId) ==
  IF ~written.result.ok
  THEN Pipeline(events \o written.events, written.result, registry, nextId)
  ELSE Pipeline(events \o written.events \o ensured.events
                  \o logSuccess([text |-> "Data fetch complete: rows written.",
                                 rows |-> Get(written.result.val, "rows")]),
                written.result, ensured.registry, ensured.nextId)

\* line 84: const result = writeData(allData)
AfterFetch(fetched, ranges, sheetNames, registry, nextId) ==
  IF ~fetched.result.ok
  THEN Pipeline(fetched.events, fetched.result, registry, nextId)
  ELSE AfterWrite(fetched.events, writeData(fetched.result.val, ranges, sheetNames),
                  setupTriggers(registry, nextId), registry, nextId)

\* lines 66-83, on the object getApiConfig handed out
WithConfig(config, ranges, net, sheetNames, registry, nextId) ==
  IF InvalidApiConfig(config)
  THEN Pipeline(<<>>, Throw(Err("Invalid API configuration")), registry, nextId)
  ELSE AfterFetch(FetchEndpoints(config, net, 1, <<>>, <<>>), ranges, sheetNames,
                  registry, nextId)

\* The try block of fetchData
FetchDataTry(cfg, net, sheetNames, registry, nextId) ==
  WithConfig(getApiConfig(cfg), getSheetRanges(cfg), net, sheetNames, registry, nextId)

\* A catch block that logs the error and returns normally
FetchDataCatchSwallow(try) ==
  IF try.result.ok THEN try
  ELSE [try EXCEPT !.events = try.events \o logError(try.result.err),
                   !.result = Ok(Undef)]

\* catch (error) { logError(error); throw error; }
FetchDataCatch(try) ==
  IF try.result.ok THEN try
  ELSE [try EXCEPT !.events = try.events \o logError(try.result.err)]

fetchData(cfg, net, sheetNames, registry, nextId) ==
  FetchDataCatch(FetchDataTry(cfg, net, sheetNames, registry, nextId))

\* ------------------------------------------------------------ state

VARIABLES
  scriptProps,   \* PropertiesService script properties: key -> text
  userProps,     \* PropertiesService user properties: key -> text
  cpc,           \* where the load of Config.gs stands
  overrides,     \* loadOverrides' result
  merged,        \* mergeConfig's result (cfg, then _config)
  defaultsObj,   \* the DEFAULTS object
  loadErr,       \* the error that stopped the load
  view           \* the last object a Config accessor handed out

VARIABLES
  server,          \* the remote API: URL -> what a request to it meets
  sheetNames,      \* the names of the spreadsheet's sheets
  triggers,        \* the project's trigger registry
  nextTriggerId,   \* the id the next created trigger gets
  exec,            \* the executions: the call each runs, its effects, its result
  overlap,         \* history: some execution started while another was running
  initRegistry,    \* history: the trigger registry at the start
  fullRefreshFlag  \* the full-refresh flag the writer's contract refers to

configVars == <<scriptProps, userProps, cpc, overrides, merged, defaultsObj, loadErr, view>>
envVars == <<server, sheetNames, initRegistry, fullRefreshFlag>>
runVars == <<triggers, nextTriggerId, exec, overlap>>

vars == <<configVars, envVars, runVars>>

None == [t |-> "none"]

\* The full-refresh flag of the sheet writer's contract, set outside the writer
FullRefreshRequested == fullRefreshFlag

\* ------------------------------------------------------------ executions

Execs == {"exec1", "exec2"}

\* An execution: pc is "idle", a place inside a trigger function, or "done";
\* loaded tells whether Config.gs loaded, so that the function ran at all;
\* pre and post are the trigger registry when the call began and when it ended;
\* todo holds the triggers setupTimeTrigger has still to delete; alone tells
\* that no other execution was running at any time during this one; run counts
\* the executions begun in this place
Idle ==
  [ pc |-> "idle", fn |-> "none", args |-> None, loaded |-> FALSE, events |-> <<>>,
    result |-> None, pre |-> {}, post |-> {}, todo |-> <<>>, alone |-> TRUE, run |-> 0 ]

\* the executions followed in each place
MaxRuns == 1

Active(x) == x.pc \notin {"idle", "done"}
CanStart(e) == ~Active(exec[e]) /\ exec[e].run < MaxRuns
OtherActive(e) == \E o \in Execs \ {e} : Active(exec[o])

\* Execution e begins as rec, alongside whatever executions are running
Begin(e, rec) ==
  [o \in Execs |-> IF o = e THEN [rec EXCEPT !.alone = ~OtherActive(e),
                                                !.run = exec[e].run + 1]
                   ELSE IF Active(exec[o]) THEN [exec[o] EXCEPT !.alone = FALSE]
                   ELSE exec[o]]

\* ------------------------------------------------------------ property stores

EmptyStore == [k \in {} |-> ""]
Bind(k, vals) == {EmptyStore} \cup {k :> v : v \in vals}

UrlTexts == { <<"h", "t", "t", "p", ":", "/", "/", "a">>, <<"f", "t", "p", ":", "/", "/", "a">>, <<>> }
KeyTexts == { <<"k">>, <<>> }
EndpointTexts ==
  { "{\"extra\":\"/x\"}", "{\"extra\":\"x\"}", "{\"fetchPets\":\"/p2\"}",
    "{\"extra\":\"\"}", "{}", "[\"/a\",\"/b\"]", "null", "5", "{bad" }
S_B3D == <<"B", "3", ":", "D">>

ScriptStores ==
  { a @@ b @@ c : a \in Bind("API_URL", UrlTexts), b \in Bind("API_KEY", KeyTexts),
                  c \in Bind("ENDPOINTS", EndpointTexts) }

UserStores ==
  { EmptyStore,
    "API_KEY" :> <<"u">>,
    "API_KEY" :> <<>>,
    "ENDPOINTS" :> "{\"fetchPets\":\"/p2\"}",
    "ENDPOINTS" :> "{bad",
    "SHEET_NAME" :> <<>>,
    ("INCREMENTAL_REFRESH_RANGE" :> S_B3D) @@ ("FOO" :> <<"x">>),
    ("TRIGGER_NAME" :> <<"T">>) @@ ("FULL_REFRESH_RANGE" :> <<>>) }

\* ------------------------------------------------------------ loading Config.gs

InitConfig ==
  /\ scriptProps \in ScriptStores
  /\ userProps \in UserStores
  /\ cpc = "load"
  /\ overrides = None
  /\ merged = None
  /\ defaultsObj = DEFAULTS
  /\ loadErr = None
  /\ view = None
  /\ server = [u \in {} |-> Down]
  /\ sheetNames = {ActiveSheet}
  /\ triggers = {}
  /\ nextTriggerId = 1
  /\ exec = [e \in Execs |-> Idle]
  /\ overlap = FALSE
  /\ initRegistry = {}
  /\ fullRefreshFlag = FALSE

\* line 117
CLoadOverrides ==
  /\ cpc = "load"
  /\ LET r == loadOverrides(scriptProps, userProps)
     IN  IF r.ok
         THEN /\ overrides' = r.val
              /\ cpc' = "merge"
              /\ UNCHANGED loadErr
         ELSE /\ loadErr' = r.err
              /\ cpc' = "failed"
              /\ UNCHANGED overrides
  /\ UNCHANGED <<scriptProps, userProps, merged, defaultsObj, view, envVars, runVars>>

\* line 118
CMerge ==
  /\ cpc = "merge"
  /\ LET r == mergeConfig(defaultsObj, overrides)
     IN  IF r.ok
         THEN /\ merged' = r.val
              /\ defaultsObj' = DefaultsAfterMerge(defaultsObj, r.val)
              /\ cpc' = "validate"
              /\ UNCHANGED loadErr
         ELSE /\ loadErr' = r.err
              /\ cpc' = "failed"
              /\ UNCHANGED <<merged, defaultsObj>>
  /\ UNCHANGED <<scriptProps, userProps, overrides, view, envVars, runVars>>

\* lines 119-120
CValidate ==
  /\ cpc = "validate"
  /\ LET r == validate(merged)
     IN  IF r.ok
         THEN cpc' = "test" /\ UNCHANGED loadErr
         ELSE cpc' = "failed" /\ loadErr' = r.err
  /\ UNCHANGED <<scriptProps, userProps, overrides, merged, defaultsObj, view, envVars, runVars>>

\* lines 151-160
CTestConfig ==
  /\ cpc = "test"
  /\ LET r == testConfig(merged)
     IN  IF r.ok
         THEN cpc' = "ready" /\ UNCHANGED loadErr
         ELSE cpc' = "failed" /\ loadErr' = r.err
  /\ UNCHANGED <<scriptProps, userProps, overrides, merged, defaultsObj, view, envVars, runVars>>

CGetApiConfig ==
  /\ cpc = "ready"
  /\ view' = getApiConfig(merged)
  /\ UNCHANGED <<scriptProps, userProps, cpc, overrides, merged, defaultsObj, loadErr, envVars, runVars>>

CGetSheetRanges ==
  /\ cpc = "ready"
  /\ view' = getSheetRanges(merged)
  /\ UNCHANGED <<scriptProps, userProps, cpc, overrides, merged, defaultsObj, loadErr, envVars, runVars>>

CGetTriggerName ==
  /\ cpc = "ready"
  /\ view' = getTriggerName(merged)
  /\ UNCHANGED <<scriptProps, userProps, cpc, overrides, merged, defaultsObj, loadErr, envVars, runVars>>

CGetRawConfig ==
  /\ cpc = "ready"
  /\ view' = merged
  /\ UNCHANGED <<scriptProps, userProps, cpc, overrides, merged, defaultsObj, loadErr, envVars, runVars>>

NextConfig ==
  \/ CLoadOverrides
  \/ CMerge
  \/ CValidate
  \/ CTestConfig
  \/ CGetApiConfig
  \/ CGetSheetRanges
  \/ CGetTriggerName
  \/ CGetRawConfig

SpecConfig == InitConfig /\ [][NextConfig]_vars

\* ------------------------------------------------------------ the sync pipeline

URL1 == Concat(S_apiUrl, S_pets)
URL2 == Concat(S_apiUrl, S_owners)

Body12 == "{\"data\":[[1,2],[3,4]]}"
Body3 == "{\"data\":[[5,6]]}"
BodyNotFound == "{\"error\":\"nf\"}"

Server(meets1, meets2) == (URL1 :> meets1) @@ (URL2 :> meets2)

Servers ==
  { Server(Response(200, Body12), Response(200, Body3)),
    Server(Response(200, Body12), Response(404, BodyNotFound)),
    Server(Response(200, Body12), Down),
    Server(Response(200, "<html>"), Response(500, "<html>")),
    Server(Response(204, ""), Response(302, BodyNotFound)) }

SyncStores ==
  { "API_KEY" :> <<"k">>,
    ("API_KEY" :> <<"k">>) @@ ("INCREMENTAL_REFRESH_RANGE" :> S_B3D),
    ("API_KEY" :> <<"k">>) @@ ("ENDPOINTS" :> "[\"/a\",\"/b\"]")
       @@ ("SHEET_NAME" :> <<"X">>),
    EmptyStore }

Row(a, b) == Arr(<<Num(a), Num(b)>>)

DataSamples ==
  { Arr(<<>>),
    Arr(<<Row(1, 2), Row(3, 4)>>),
    Arr(<<Row(1, 2), Row(3, 4), Row(5, 6)>>),
    Arr(<<Arr(<<Num(7)>>)>>),
    Arr(<<Row(1, 2), Arr(<<Num(3)>>)>>),
    Arr(<<Obj(<<P("name", Str(<<"R", "e", "x">>))>>)>>),
    Undef }

UrlSamples == {Str(URL1), Str(URL2), Str(<<"h", "t", "t", "p", ":", "/", "/", "x">>), Str(<<>>), Undef}
OptionSamples == {Undef, Obj(<<P("method", Str(<<"p", "o", "s", "t">>)), P("timeout", Num(5))>>)}

HourlyFetch(id) == NewTrigger(id, "fetchData", "hours", 1)

InitSync ==
  /\ scriptProps \in SyncStores
  /\ userProps = EmptyStore
  /\ cpc = "load"
  /\ overrides = None
  /\ merged = None
  /\ defaultsObj = DEFAULTS
  /\ loadErr = None
  /\ view = None
  /\ server \in Servers
  /\ sheetNames \in {{ActiveSheet}, {ActiveSheet, S_Pets}}
  /\ triggers \in {{}, {HourlyFetch(0)}}
  /\ nextTriggerId = 1
  /\ exec = [e \in Execs |-> Idle]
  /\ overlap = FALSE
  /\ initRegistry = triggers
  /\ fullRefreshFlag \in BOOLEAN

\* An execution whose load of Config.gs threw: the function never ran
LoadFailed(fn, args, err) ==
  [Idle EXCEPT !.pc = "done", !.fn = fn, !.args = args, !.result = err,
               !.pre = triggers, !.post = triggers]

\* An execution that ran fn to its end
Ran(fn, args, events, result, registry) ==
  [Idle EXCEPT !.pc = "done", !.fn = fn, !.args = args, !.loaded = TRUE,
               !.events = events, !.result = result,
               !.pre = triggers, !.post = registry]

\* The state after execution e ran fetchData with result r
FetchDataRan(e, by, r) ==
  /\ exec' = Begin(e, Ran("fetchData", [by |-> by], r.events, r.result, r.registry))
  /\ triggers' = r.registry
  /\ nextTriggerId' = r.nextId

\* Execution e loads Config.gs (c) and runs fetchData
FetchDataWith(e, by, c) ==
  IF ~c.ok
  THEN /\ exec' = Begin(e, LoadFailed("fetchData", [by |-> by], c))
       /\ UNCHANGED <<triggers, nextTriggerId>>
  ELSE FetchDataRan(e, by, fetchData(c.val, server, sheetNames, triggers, nextTriggerId))

\* fetchData, called from the sidebar (by = "user") or by a time trigger
StartFetchData(e, by) ==
  /\ CanStart(e)
  /\ FetchDataWith(e, by, BuildConfig(scriptProps, userProps))
  /\ overlap' = (overlap \/ OtherActive(e))
  /\ UNCHANGED <<configVars, envVars>>

RunFetchData(e) == StartFetchData(e, "user")

FireFetchData(e) ==
  /\ Existing(triggers)
  /\ StartFetchData(e, "trigger")

\* An execution that ran a function which leaves the triggers alone
RanOutcome(fn, args, r) == Ran(fn, args, r.events, r.result, triggers)

WriteDataWith(data, c) ==
  IF ~c.ok THEN LoadFailed("writeData", [data |-> data], c)
  ELSE RanOutcome("writeData", [data |-> data],
                  writeData(data, getSheetRanges(c.val), sheetNames))

RunWriteData(e, data) ==
  /\ CanStart(e)
  /\ exec' = Begin(e, WriteDataWith(data, BuildConfig(scriptProps, userProps)))
  /\ overlap' = (overlap \/ OtherActive(e))
  /\ UNCHANGED <<configVars, envVars, triggers, nextTriggerId>>

CallApiWith(url, options, c) ==
  IF ~c.ok THEN LoadFailed("callApi", [url |-> url, options |-> options], c)
  ELSE RanOutcome("callApi", [url |-> url, options |-> options],
                  callApi(url, options, server))

RunCallApi(e, url, options) ==
  /\ CanStart(e)
  /\ exec' = Begin(e, CallApiWith(url, options, BuildConfig(scriptProps, userProps)))
  /\ overlap' = (overlap \/ OtherActive(e))
  /\ UNCHANGED <<configVars, envVars, triggers, nextTriggerId>>

NextSync ==
  \/ RunFetchData("exec1")
  \/ FireFetchData("exec2")
  \/ \E data \in DataSamples : RunWriteData("exec1", data)
  \/ \E url \in UrlSamples, options \in OptionSamples : RunCallApi("exec1", url, options)

Spec == InitSync /\ [][NextSync]_vars

\* ------------------------------------------------------------ the triggers

OtherHandler == NewTrigger(3, "sendReport", "hours", 6)

Registries ==
  { {},
    {HourlyFetch(1)},
    {OtherHandler},
    {HourlyFetch(1), NewTrigger(2, "fetchData", "minutes", 30), OtherHandler} }

\* the calls of setupTimeTrigger followed: from the menu (no arguments) and
\* with arguments
TimeTriggerCalls ==
  { [intervalMinutes |-> Undef, enabled |-> Undef],
    [intervalMinutes |-> Num(5), enabled |-> Bool(TRUE)],
    [intervalMinutes |-> Num(5), enabled |-> Bool(FALSE)],
    [intervalMinutes |-> Str(<<"5">>), enabled |-> Num(0)] }

InitTriggers ==
  /\ scriptProps \in {"API_KEY" :> <<"k">>, EmptyStore}
  /\ userProps = EmptyStore
  /\ cpc = "load"
  /\ overrides = None
  /\ merged = None
  /\ defaultsObj = DEFAULTS
  /\ loadErr = None
  /\ view = None
  /\ server = Server(Response(200, Body12), Response(200, Body3))
  /\ sheetNames = {ActiveSheet}
  /\ triggers \in Registries
  /\ nextTriggerId = 4
  /\ exec = [e \in Execs |-> Idle]
  /\ overlap = FALSE
  /\ initRegistry = triggers
  /\ fullRefreshFlag = FALSE

\* ScriptApp.getProjectTriggers(), in the order the triggers were created
RECURSIVE Snapshot(_)
Snapshot(registry) ==
  IF registry = {} THEN <<>>
  ELSE LET first == CHOOSE tr \in registry : \A o \in registry : tr.id <= o.id
       IN  <<first>> \o Snapshot(registry \ {first})

\* A loop that deletes the first fetchData trigger only
FetchSnapshotFirst(registry) ==
  IF \A tr \in registry : tr.handler # "fetchData" THEN <<>>
  ELSE <<Head(SelectSeq(Snapshot(registry), LAMBDA tr : tr.handler = "fetchData"))>>

\* The triggers the forEach of setupTimeTrigger passes to deleteTrigger
FetchSnapshot(registry) ==
  SelectSeq(Snapshot(registry), LAMBDA tr : tr.handler = "fetchData")

\* A deleteTrigger that deletes nothing
DeleteNothing(registry, tr) == registry

\* ScriptApp.deleteTrigger(trigger)
DeleteTrigger(registry, tr) == registry \ {tr}

\* typeof intervalMinutes === 'number' ? intervalMinutes : 60
Minutes(intervalMinutes) ==
  IF TypeOf(intervalMinutes) = "number" THEN intervalMinutes.n ELSE 60

\* The execution record of a function that has begun and not ended
Began(fn, args, pc) ==
  [Idle EXCEPT !.pc = pc, !.fn = fn, !.args = args, !.loaded = TRUE, !.pre = triggers]

\* Execution e of fn begins: Config.gs is loaded (c), then fn runs up to pc
BeginWith(e, fn, args, pc, todo, c) ==
  IF ~c.ok THEN Begin(e, LoadFailed(fn, args, c))
  ELSE IF pc = "done" THEN Begin(e, Ran(fn, args, <<>>, Ok(Undef), triggers))
  ELSE Begin(e, [Began(fn, args, pc) EXCEPT !.todo = todo])

\* Execution e ends with result
Ended(e, events, result, registry) ==
  [exec EXCEPT ![e].pc = "done", ![e].events = exec[e].events \o events,
               ![e].result = result, ![e].post = registry, ![e].todo = <<>>]

\* setupTriggers, lines 132-135: the check
StartSetupTriggers(e) ==
  /\ CanStart(e)
  /\ exec' = BeginWith(e, "setupTriggers", None,
                       IF Existing(triggers) THEN "done" ELSE "st_create", <<>>,
                       BuildConfig(scriptProps, userProps))
  /\ overlap' = (overlap \/ OtherActive(e))
  /\ UNCHANGED <<configVars, envVars, triggers, nextTriggerId>>

\* setupTriggers, lines 136-139: the creation
STCreate(e) ==
  /\ exec[e].pc = "st_create"
  /\ triggers' = triggers \cup {HourlyFetch(nextTriggerId)}
  /\ nextTriggerId' = nextTriggerId + 1
  /\ exec' = Ended(e, <<[e |-> "newTrigger", handler |-> "fetchData", unit |-> "hours", n |-> 1]>>,
                   Ok(Undef), triggers')
  /\ UNCHANGED <<configVars, envVars, overlap>>

\* setupTimeTrigger, line 33: the snapshot of the project's triggers
StartSetupTimeTrigger(e, intervalMinutes, enabled) ==
  /\ CanStart(e)
  /\ exec' = BeginWith(e, "setupTimeTrigger",
                       [intervalMinutes |-> intervalMinutes, enabled |-> enabled],
                       "tt_delete", FetchSnapshot(triggers),
                       BuildConfig(scriptProps, userProps))
  /\ overlap' = (overlap \/ OtherActive(e))
  /\ UNCHANGED <<configVars, envVars, triggers, nextTriggerId>>

\* One ScriptApp.deleteTrigger of the forEach (lines 36-40 and 45-49)
TTDelete(e) ==
  /\ exec[e].pc = "tt_delete"
  /\ exec[e].todo # <<>>
  /\ Head(exec[e].todo) \in triggers
  /\ triggers' = DeleteTrigger(triggers, Head(exec[e].todo))
  /\ exec' = [exec EXCEPT ![e].todo = Tail(exec[e].todo),
                          ![e].events = Append(exec[e].events,
                                               [e |-> "deleteTrigger", id |-> Head(exec[e].todo).id])]
  /\ UNCHANGED <<configVars, envVars, nextTriggerId, overlap>>

\* ScriptApp.deleteTrigger of a trigger another execution has deleted since
\* the snapshot: the call does nothing, or it throws and ends the execution
TTDeleteGone(e) ==
  /\ exec[e].pc = "tt_delete"
  /\ exec[e].todo # <<>>
  /\ Head(exec[e].todo) \notin triggers
  /\ \E throws \in BOOLEAN :
       exec' = IF throws
               THEN Ended(e, <<>>, Throw([name |-> "Exception", msg |-> "Trigger not found"]),
                          triggers)
               ELSE [exec EXCEPT ![e].todo = Tail(exec[e].todo)]
  /\ UNCHANGED <<configVars, envVars, triggers, nextTriggerId, overlap>>

\* lines 41-42, enabled === false
TTDisabled(e) ==
  /\ exec[e].pc = "tt_delete"
  /\ exec[e].todo = <<>>
  /\ exec[e].args.enabled = Bool(FALSE)
  /\ exec' = Ended(e, <<[e |-> "alert", msg |-> "Auto sync disabled."]>>, Ok(Undef), triggers)
  /\ UNCHANGED <<configVars, envVars, triggers, nextTriggerId, overlap>>

\* lines 51-56
TTCreate(e) ==
  /\ exec[e].pc = "tt_delete"
  /\ exec[e].todo = <<>>
  /\ exec[e].args.enabled # Bool(FALSE)
  /\ triggers' = triggers \cup {NewTrigger(nextTriggerId, "fetchData", "minutes",
                                           Minutes(exec[e].args.intervalMinutes))}
  /\ nextTriggerId' = nextTriggerId + 1
  /\ exec' = Ended(e, << [e |-> "newTrigger", handler |-> "fetchData", unit |-> "minutes",
                          n |-> Minutes(exec[e].args.intervalMinutes)],
                         [e |-> "alert", msg |-> "Auto sync set to every minutes.",
                          minutes |-> Minutes(exec[e].args.intervalMinutes)] >>,
                   Ok(Undef), triggers')
  /\ UNCHANGED <<configVars, envVars, overlap>>

NextTriggers ==
  \/ \E e \in Execs : StartSetupTriggers(e)
  \/ \E e \in Execs : STCreate(e)
  \/ \E e \in Execs, call \in TimeTriggerCalls :
       StartSetupTimeTrigger(e, call.intervalMinutes, call.enabled)
  \/ \E e \in Execs : TTDelete(e)
  \/ \E e \in Execs : TTDeleteGone(e)
  \/ \E e \in Execs : TTDisabled(e)
  \/ \E e \in Execs : TTCreate(e)
  \/ RunFetchData("exec1")
  \/ FireFetchData("exec2")

SpecTriggers == InitTriggers /\ [][NextTriggers]_vars

\* ============================================================ claims

KeySet(v) == {Keys(v)[i] : i \in 1..Len(Keys(v))}

ScalarFields ==
  {"apiUrl", "apiKey", "sheetName", "fullRefreshRange", "incrementalRefreshRange",
   "triggerName"}

EffectiveProps == AllProps(scriptProps, userProps)

EndpointsTextInvalid ==
  /\ "ENDPOINTS" \in DOMAIN EffectiveProps
  /\ ~JSONparse(EffectiveProps["ENDPOINTS"]).ok

ApiKeyEmpty ==
  \/ "API_KEY" \notin DOMAIN EffectiveProps
  \/ EffectiveProps["API_KEY"] = <<>>

\* some endpoint of cfg is a string that does not start with "/"
SomePathWithoutSlash(cfg) ==
  \E n \in KeySet(Get(cfg, "endpoints")) :
    LET path == Get(Get(cfg, "endpoints"), n)
    IN  path.t = "str" /\ (path.s = <<>> \/ path.s[1] # "/")

IsNonEmptyStr(v) == v.t = "str" /\ Len(v.s) > 0

\* the validation rules of the data model, stated on a configuration
SatisfiesRules(cfg) ==
  /\ IsNonEmptyStr(Get(cfg, "apiUrl"))
  /\ LET u == Get(cfg, "apiUrl").s
     IN  \/ Len(u) >= 7 /\ SubSeq(u, 1, 7) = <<"h", "t", "t", "p", ":", "/", "/">>
         \/ Len(u) >= 8 /\ SubSeq(u, 1, 8) = <<"h", "t", "t", "p", "s", ":", "/", "/">>
  /\ IsNonEmptyStr(Get(cfg, "apiKey"))
  /\ Get(cfg, "endpoints").t \in {"obj", "arr"}
  /\ \A n \in KeySet(Get(cfg, "endpoints")) :
       /\ IsNonEmptyStr(Get(Get(cfg, "endpoints"), n))
       /\ Get(Get(cfg, "endpoints"), n).s[1] = "/"
  /\ \A f \in {"sheetName", "fullRefreshRange", "incrementalRefreshRange", "triggerName"} :
       IsNonEmptyStr(Get(cfg, f))

ConfigExposed == cpc = "ready" \/ view # None
LoadEnded == cpc \in {"ready", "failed"}

\* C7: when the ENDPOINTS property is not valid JSON, or the API key that
\* results is empty (no API_KEY property included), or an endpoint path of the
\* merged configuration does not start with "/", the load of the configuration
\* ends failed with an error and no configuration object is ever exposed; and
\* a configuration that is exposed satisfies every validation rule.
C7_ConstructionFails ==
  /\ (EndpointsTextInvalid \/ ApiKeyEmpty \/ (merged # None /\ SomePathWithoutSlash(merged)))
       => /\ ~ConfigExposed
          /\ LoadEnded => (cpc = "failed" /\ loadErr # None)
  /\ ConfigExposed => SatisfiesRules(merged)

\* C7 witness: the load has failed in validate on an endpoint path without
\* "/", with a valid ENDPOINTS text and a non-empty API key
C7_Witness ==
  /\ cpc = "failed"
  /\ merged # None
  /\ SomePathWithoutSlash(merged)
  /\ ~EndpointsTextInvalid
  /\ ~ApiKeyEmpty
  /\ IsHttpUrl(Get(merged, "apiUrl").s)

\* ------------------------------------------------------------ runs of the pipeline

\* the executions that ran fn to its end (Config.gs loaded)
Runs(fn) == {e \in Execs : exec[e].pc = "done" /\ exec[e].fn = fn /\ exec[e].loaded}

\* the _config object of the deployment
Cfg == BuildConfig(scriptProps, userProps).val

EventsOf(events, kinds) == SelectSeq(events, LAMBDA x : x.e \in kinds)

DefaultEndpoints == "ENDPOINTS" \notin DOMAIN EffectiveProps

RowCount(n) == Ok(Obj(<<P("success", Bool(TRUE)), P("rows", Num(n))>>))

\* C1: a fetchData run over the two default endpoints, the first answering
\* 200 with data [[1,2],[3,4]] and the second 200 with data [[5,6]], makes
\* exactly one block write, of [[1,2],[3,4],[5,6]] in that order, and returns
\* {success: true, rows: 3}.
C1_AggregateWritten ==
  \A e \in Runs("fetchData") :
    (DefaultEndpoints /\ server = Server(Response(200, Body12), Response(200, Body3)))
      => /\ Len(EventsOf(exec[e].events, {"setValues"})) = 1
         /\ EventsOf(exec[e].events, {"setValues"})[1].data
              = Arr(<<Row(1, 2), Row(3, 4), Row(5, 6)>>)
         /\ exec[e].result = RowCount(3)

FailureStatus(meets) == meets.kind = "response" /\ (meets.code < 200 \/ meets.code >= 300)

\* C2: in a fetchData run over the two default endpoints whose second endpoint
\* answers with a non-2xx status, the request to the second endpoint is made,
\* nothing is written to the sheet and the run ends with an error thrown to
\* the caller.
C2_NoPartialWrite ==
  \A e \in Runs("fetchData") :
    (DefaultEndpoints /\ FailureStatus(server[URL2]))
      => /\ \E i \in 1..Len(exec[e].events) :
              exec[e].events[i].e = "fetch" /\ exec[e].events[i].url = URL2
         /\ EventsOf(exec[e].events, {"setValues", "clearContent"}) = <<>>
         /\ ~exec[e].result.ok

\* the callApi runs whose url the remote end answers with an HTTP response
AnsweredCalls ==
  { e \in Runs("callApi") :
      /\ exec[e].args.url.t = "str"
      /\ exec[e].args.url.s \in DOMAIN server
      /\ server[exec[e].args.url.s].kind = "response" }

IsBlock(data) ==
  /\ IsArray(data)
  /\ Len(data.a) > 0
  /\ \A i \in 1..Len(data.a) : IsArray(data.a[i]) /\ Len(data.a[i].a) = Len(data.a[1].a)

\* C9: a writeData run given a non-empty block, when the full-refresh flag is
\* set, clears the full-refresh range and then writes the block at that
\* range's top-left cell; when the flag is not set it clears nothing and writes
\* the block at the incremental range's top-left cell; in both cases there is
\* exactly one block write, of rows x cols cells, and the row count is
\* returned; a run given an empty sequence throws and neither clears nor writes.
C9_FullOrIncremental ==
  \A e \in Runs("writeData") :
    LET data == exec[e].args.data
        ev == exec[e].events
        writes == EventsOf(ev, {"setValues"})
        origin == IF FullRefreshRequested THEN GetRange(Get(Cfg, "fullRefreshRange")).val
                  ELSE GetRange(Get(Cfg, "incrementalRefreshRange")).val
    IN  /\ IsBlock(data)
             => /\ Len(writes) = 1
                /\ writes[1].row = origin.row /\ writes[1].col = origin.col
                /\ writes[1].rows = Len(data.a) /\ writes[1].cols = Len(data.a[1].a)
                /\ writes[1].data = data
                /\ IF FullRefreshRequested
                   THEN /\ Len(ev) = 2
                        /\ ev[1].e = "clearContent"
                        /\ ev[1].range = Get(Cfg, "fullRefreshRange").s
                        /\ ev[2] = writes[1]
                   ELSE ev = writes
                /\ exec[e].result = RowCount(Len(data.a))
        /\ data = Arr(<<>>) => (~exec[e].result.ok /\ ev = <<>>)

\* the step of the pipeline an effect belongs to
Step(event) ==
  CASE event.e = "fetch" -> 1
    [] event.e \in {"clearContent", "setValues"} -> 2
    [] event.e = "newTrigger" -> 3
    [] event.e = "Logger.log" /\ event.level = "SUCCESS" -> 4
    [] event.e = "toast" /\ event.title = "PetSync Success" -> 4
    [] OTHER -> 5

AloneRuns(fn) == {e \in Runs(fn) : exec[e].alone /\ exec[e].result.ok}

\* C3: a setupTriggers execution that runs alone from a registry holding a
\* fetchData trigger leaves the registry as it was and does nothing; one that
\* runs alone from a registry without a fetchData trigger adds one hourly
\* fetchData trigger and nothing else; and of two such executions in
\* succession, the first from a registry without a fetchData trigger, the
\* second changes nothing, so that exactly one fetchData trigger is left.
C3_EnsureIdempotent ==
  /\ \A e \in AloneRuns("setupTriggers") :
       /\ Existing(exec[e].pre) => (exec[e].post = exec[e].pre /\ exec[e].events = <<>>)
       /\ ~Existing(exec[e].pre)
            => /\ Cardinality(FetchTriggers(exec[e].post)) = 1
               /\ \A tr \in FetchTriggers(exec[e].post) : tr.unit = "hours" /\ tr.n = 1
               /\ exec[e].post \ FetchTriggers(exec[e].post) = exec[e].pre
  /\ \A e1, e2 \in AloneRuns("setupTriggers") :
       (e1 # e2 /\ exec[e2].pre = exec[e1].post /\ ~Existing(exec[e1].pre))
         => /\ exec[e2].post = exec[e1].post
            /\ Cardinality(FetchTriggers(exec[e2].post)) = 1

\* C3 witness: two setupTriggers executions have run in succession, the first
\* from a registry without a fetchData trigger, and one such trigger is there
C3_Witness ==
  \E e1, e2 \in AloneRuns("setupTriggers") :
    /\ e1 # e2
    /\ ~Existing(exec[e1].pre)
    /\ exec[e2].pre = exec[e1].post
    /\ triggers = exec[e2].post
    /\ Cardinality(FetchTriggers(triggers)) = 1

IsBefore(events, first, then) ==
  \A i, j \in 1..Len(events) : (events[i].e = then /\ events[j].e = first) => j < i

\* C4: a setupTimeTrigger execution that runs alone to its end leaves the
\* triggers of other handlers as they were and deletes every fetchData trigger
\* it found; with enabled = false it creates none, so that no fetchData trigger
\* is left; otherwise it creates, after the deletions, one fetchData trigger
\* that fires every intervalMinutes minutes (every 60 when intervalMinutes is
\* not a number), so that exactly that one is left.
C4_Configure ==
  \A e \in AloneRuns("setupTimeTrigger") :
    LET pre == exec[e].pre
        post == exec[e].post
        ev == exec[e].events
        period == IF exec[e].args.intervalMinutes.t = "num"
                  THEN exec[e].args.intervalMinutes.n ELSE 60
    IN  /\ post \ FetchTriggers(post) = pre \ FetchTriggers(pre)
        /\ FetchTriggers(post) \cap pre = {}
        /\ {ev[i].id : i \in {j \in 1..Len(ev) : ev[j].e = "deleteTrigger"}}
             = {tr.id : tr \in FetchTriggers(pre)}
        /\ IsBefore(ev, "deleteTrigger", "newTrigger")
        /\ exec[e].args.enabled = Bool(FALSE)
             => (FetchTriggers(post) = {} /\ EventsOf(ev, {"newTrigger"}) = <<>>)
        /\ exec[e].args.enabled # Bool(FALSE)
             => /\ Cardinality(FetchTriggers(post)) = 1
                /\ Len(EventsOf(ev, {"newTrigger"})) = 1
                /\ \A tr \in FetchTriggers(post) : tr.unit = "minutes" /\ tr.n = period

\* C4 witness: setupTimeTrigger(5, true) has run alone from a registry with
\* two fetchData triggers and another handler's trigger, and has left that
\* trigger and one fetchData trigger firing every 5 minutes
C4_Witness ==
  \E e \in AloneRuns("setupTimeTrigger") :
    /\ Cardinality(FetchTriggers(exec[e].pre)) = 2
    /\ exec[e].args.intervalMinutes = Num(5)
    /\ exec[e].args.enabled = Bool(TRUE)
    /\ OtherHandler \in exec[e].post
    /\ \E tr \in exec[e].post : tr.handler = "fetchData" /\ tr.n = 5

AtMostOneAtStart == Cardinality(FetchTriggers(initRegistry)) <= 1

\* C5 as claimed: starting from a registry with at most one fetchData trigger,
\* at every moment there is at most one fetchData trigger, whether or not
\* executions overlap.
C5_AtMostOne == AtMostOneAtStart => Cardinality(FetchTriggers(triggers)) <= 1

\* C5: starting from a registry with at most one fetchData trigger, at every
\* moment there is at most one fetchData trigger as long as no execution of
\* fetchData, setupTriggers or setupTimeTrigger has begun while another was
\* running.
C5_AtMostOneSequential ==
  (AtMostOneAtStart /\ ~overlap) => Cardinality(FetchTriggers(triggers)) <= 1

\* C5 witness: setupTriggers has created a trigger and then setupTimeTrigger
\* has replaced it, one after the other, and one fetchData trigger is there
C5_Witness ==
  /\ AtMostOneAtStart
  /\ ~overlap
  /\ \E e1 \in AloneRuns("setupTriggers"), e2 \in AloneRuns("setupTimeTrigger") :
       /\ ~Existing(exec[e1].pre)
       /\ exec[e2].pre = exec[e1].post
       /\ exec[e2].args.enabled # Bool(FALSE)
       /\ triggers = exec[e2].post
  /\ Cardinality(FetchTriggers(triggers)) = 1

====
